---- MODULE Spec2Model ----
(***************************************************************************)
(* Model of sciencedirect-rss2paper: the run coordinator (main.py), the    *)
(* fetch orchestrator (article_fetcher.py), the identifier resolver        *)
(* (rss_parser.py) and the extraction pipeline (content_extractor.py).     *)
(*                                                                         *)
(* Representation.                                                         *)
(*  - An optional value (Python None or a value) is <<>> or <<v>>.         *)
(*  - Short header strings (content types, keys) are sequences of          *)
(*    one-character strings.                                               *)
(*  - Article text is a Python str kept run-length encoded: a sequence of  *)
(*    runs <<c, n>> (n >= 1 copies of character c), no two neighbouring    *)
(*    runs with the same character, so that equal strings are equal        *)
(*    values and the 20/30/40/50/80/200/500 character thresholds of the    *)
(*    code are met with their real values.                                 *)
(*  - A raw body is known to the code only through its parsers; it is the  *)
(*    record of what each parser makes of it: lxml and ElementTree give a  *)
(*    tree or a parse error, BeautifulSoup always gives a tree.            *)
(*  - A tree is the sequence of its elements in document order (pre-order),*)
(*    each with its depth; element 1 is the root at depth 0.               *)
(***************************************************************************)
EXTENDS Integers, Sequences, FiniteSets, TLC

None == <<>>
Some(v) == <<v>>

\* Python truthiness of an optional string: neither None nor empty.
Truthy(o) == o # None /\ o[1] # ""

Range(s) == {s[k] : k \in 1..Len(s)}

Min(a, b) == IF a <= b THEN a ELSE b

(***************************************************************************)
(* Header strings: sequences of characters.                                *)
(***************************************************************************)
UpperToLower ==
  [c \in {"A","B","C","D","E","F","G","H","I","J","K","L","M","N","O","P","Q",
          "R","S","T","U","V","W","X","Y","Z"} |->
     CASE c = "A" -> "a" [] c = "B" -> "b" [] c = "C" -> "c" [] c = "D" -> "d"
       [] c = "E" -> "e" [] c = "F" -> "f" [] c = "G" -> "g" [] c = "H" -> "h"
       [] c = "I" -> "i" [] c = "J" -> "j" [] c = "K" -> "k" [] c = "L" -> "l"
       [] c = "M" -> "m" [] c = "N" -> "n" [] c = "O" -> "o" [] c = "P" -> "p"
       [] c = "Q" -> "q" [] c = "R" -> "r" [] c = "S" -> "s" [] c = "T" -> "t"
       [] c = "U" -> "u" [] c = "V" -> "v" [] c = "W" -> "w" [] c = "X" -> "x"
       [] c = "Y" -> "y" [] c = "Z" -> "z"]

\* str.lower()
Lower(s) == [k \in 1..Len(s) |-> IF s[k] \in DOMAIN UpperToLower
                                 THEN UpperToLower[s[k]] ELSE s[k]]

\* `sub in s` for strings
Contains(s, sub) ==
  \E k \in 0..(Len(s) - Len(sub)) : SubSeq(s, k + 1, k + Len(sub)) = sub

IsSpace(c) == c \in {" ", "\n", "\t"}

\* str.strip()
RECURSIVE LStrip(_)
LStrip(s) == IF s # <<>> /\ IsSpace(Head(s)) THEN LStrip(Tail(s)) ELSE s

RECURSIVE RStrip(_)
RStrip(s) == IF s # <<>> /\ IsSpace(s[Len(s)])
             THEN RStrip(SubSeq(s, 1, Len(s) - 1)) ELSE s

Strip(s) == RStrip(LStrip(s))

\* s.split(";")[0]
RECURSIVE BeforeSemicolon(_)
BeforeSemicolon(s) ==
  IF s = <<>> \/ Head(s) = ";" THEN <<>>
  ELSE <<Head(s)>> \o BeforeSemicolon(Tail(s))

(***************************************************************************)
(* Article text: run-length encoded strings.                               *)
(***************************************************************************)
Empty == <<>>

\* the string of n copies of character c
Rep(c, n) == IF n = 0 THEN <<>> ELSE << <<c, n>> >>

\* a + b
TCat(a, b) ==
  IF a = <<>> THEN b
  ELSE IF b = <<>> THEN a
  ELSE IF a[Len(a)][1] = b[1][1]
       THEN SubSeq(a, 1, Len(a) - 1)
              \o << <<b[1][1], a[Len(a)][2] + b[1][2]>> >> \o Tail(b)
       ELSE a \o b

\* len(t)
RECURSIVE TLen(_)
TLen(t) == IF t = <<>> THEN 0 ELSE Head(t)[2] + TLen(Tail(t))

\* t[:k]
RECURSIVE TTake(_, _)
TTake(t, k) ==
  IF t = <<>> \/ k <= 0 THEN <<>>
  ELSE IF Head(t)[2] >= k THEN << <<Head(t)[1], k>> >>
  ELSE <<Head(t)>> \o TTake(Tail(t), k - Head(t)[2])

\* t.strip()
RECURSIVE TLStrip(_)
TLStrip(t) == IF t # <<>> /\ IsSpace(Head(t)[1]) THEN TLStrip(Tail(t)) ELSE t

RECURSIVE TRStrip(_)
TRStrip(t) == IF t # <<>> /\ IsSpace(t[Len(t)][1])
              THEN TRStrip(SubSeq(t, 1, Len(t) - 1)) ELSE t

TStrip(t) == TRStrip(TLStrip(t))

\* re.sub(r"\s+", " ", t): every maximal run of whitespace becomes one space
RECURSIVE CollapseInto(_, _)
CollapseInto(out, t) ==
  IF t = <<>> THEN out
  ELSE IF IsSpace(Head(t)[1])
       THEN CollapseInto(IF out # <<>> /\ out[Len(out)][1] = " "
                         THEN out ELSE Append(out, <<" ", 1>>), Tail(t))
       ELSE CollapseInto(TCat(out, <<Head(t)>>), Tail(t))

TCollapse(t) == CollapseInto(<<>>, t)

\* sep.join(parts)
RECURSIVE TJoin(_, _)
TJoin(sep, parts) ==
  IF parts = <<>> THEN <<>>
  ELSE IF Len(parts) = 1 THEN parts[1]
  ELSE TCat(TCat(parts[1], sep), TJoin(sep, Tail(parts)))

SP == Rep(" ", 1)
BlankLine == Rep("\n", 2)
Ellipsis == Rep(".", 3)

\* the indices lo..hi as a sequence
Indices(lo, hi) == [k \in 1..(IF hi >= lo THEN hi - lo + 1 ELSE 0) |-> lo + k - 1]

\* s[:n] of a list
FirstN(s, n) == SubSeq(s, 1, Min(n, Len(s)))

(***************************************************************************)
(* Trees.  tree[k] = [tag, depth, text, tail, ...]; text and tail are      *)
(* Empty when the parser gives None.                                       *)
(***************************************************************************)
\* the last element of the subtree rooted at el
SubEnd(tree, el) ==
  LET later == {k \in (el + 1)..Len(tree) : tree[k].depth <= tree[el].depth}
  IN IF later = {} THEN Len(tree)
     ELSE (CHOOSE k \in later : \A j \in later : k <= j) - 1

\* the children of el, in order (iteration over an element)
Children(tree, el) ==
  SelectSeq(Indices(el + 1, SubEnd(tree, el)),
            LAMBDA k : tree[k].depth = tree[el].depth + 1)

\* el.iter(): el and its descendants in document order
Iter(tree, el) == Indices(el, SubEnd(tree, el))

\* the descendants of el, without el
Descendants(tree, el) == Indices(el + 1, SubEnd(tree, el))

(***************************************************************************)
(* content_extractor.py: structured (XML) extraction, ElementTree strategy *)
(***************************************************************************)
AbstractMinLen == 20
AbstractCap == 3
BodyMinLen == 30
ParaMinLen == 50
PromoteMinLen == 200
TruncateLen == 500

\* ElementTree names a namespaced tag "{uri}local"; a tag is the sequence of
\* its tokens, <<"{", uri, "}", local>> or <<local>>.
RECURSIVE AfterBrace(_)
AfterBrace(tag) == IF tag = <<>> THEN <<>>
                   ELSE IF Head(tag) = "}" THEN Tail(tag)
                   ELSE AfterBrace(Tail(tag))

strip_ns(tag) == IF tag # <<>> /\ "}" \in Range(tag) THEN AfterBrace(tag) ELSE tag

RECURSIVE collect_text(_, _)
RECURSIVE collect_children(_, _)
collect_text(tree, el) ==
  (IF tree[el].text # Empty THEN <<tree[el].text>> ELSE <<>>)
    \o collect_children(tree, Children(tree, el))
collect_children(tree, cs) ==
  IF cs = <<>> THEN <<>>
  ELSE collect_text(tree, cs[1])
         \o (IF tree[cs[1]].tail # Empty THEN <<tree[cs[1]].tail>> ELSE <<>>)
         \o collect_children(tree, Tail(cs))

find_all_with_tag(tree, parent, local_name) ==
  SelectSeq(Iter(tree, parent), LAMBDA k : strip_ns(tree[k].tag) = <<local_name>>)

text_of(tree, el) == TStrip(TJoin(SP, collect_text(tree, el)))

\* the same loop without its `t not in parts`
KeepLongOnly(parts, texts, n) ==
  parts \o SelectSeq(texts, LAMBDA t : t # Empty /\ TLen(t) > n)

\* `if t and len(t) > n and t not in parts: parts.append(t)` over texts
RECURSIVE KeepDistinctLong(_, _, _)
KeepDistinctLong(parts, texts, n) ==
  IF texts = <<>> THEN parts
  ELSE KeepDistinctLong(
         IF Head(texts) # Empty /\ TLen(Head(texts)) > n
            /\ Head(texts) \notin Range(parts)
         THEN Append(parts, Head(texts)) ELSE parts,
         Tail(texts), n)

\* `if t and len(t) > n: parts.append(t)` over texts
KeepLong(texts, n) == SelectSeq(texts, LAMBDA t : t # Empty /\ TLen(t) > n)

\* the order in which the abstract elements are visited
et_abstract_elements(tree) ==
  find_all_with_tag(tree, 1, "description") \o find_all_with_tag(tree, 1, "abstract")

et_abstract_parts(tree) ==
  LET els == et_abstract_elements(tree)
      texts == [k \in 1..Len(els) |-> text_of(tree, els[k])]
      parts == KeepDistinctLong(<<>>, texts, AbstractMinLen)
  IN IF parts # <<>> THEN FirstN(parts, AbstractCap) ELSE parts

et_body_parts(tree) ==
  LET bodies == SelectSeq(Iter(tree, 1), LAMBDA k : strip_ns(tree[k].tag) = <<"body">>)
      els == IF bodies = <<>> THEN <<>>
             ELSE find_all_with_tag(tree, bodies[1], "section")
                    \o find_all_with_tag(tree, bodies[1], "para")
                    \o find_all_with_tag(tree, bodies[1], "p")
      inBody == KeepLong([k \in 1..Len(els) |-> text_of(tree, els[k])], BodyMinLen)
      paras == find_all_with_tag(tree, 1, "para")
  IN IF inBody # <<>> THEN inBody
     ELSE KeepLong([k \in 1..Len(paras) |-> text_of(tree, paras[k])], ParaMinLen)

\* ExtractedContent(abstract, full_text, source), with the locals of the call
\* that made it: the parsers it ran in order (via) and the candidate lists.
Content(abstract, full_text, source, via, abstract_parts, body_parts) ==
  [abstract |-> abstract, full_text |-> full_text, source |-> source,
   via |-> via, abstract_parts |-> abstract_parts, body_parts |-> body_parts]

\* the three fields of ExtractedContent
Fields(r) == [abstract |-> r.abstract, full_text |-> r.full_text, source |-> r.source]

extract_from_api_xml(raw_body) ==
  IF raw_body.et = None THEN Content(Empty, Empty, "api", <<"et">>, <<>>, <<>>)
  ELSE LET root == raw_body.et[1]
           abstract_parts == et_abstract_parts(root)
           body_parts == et_body_parts(root)
           abstract == IF abstract_parts # <<>> THEN TJoin(BlankLine, abstract_parts) ELSE Empty
           full_text == IF body_parts # <<>> THEN TJoin(BlankLine, body_parts) ELSE Empty
       IN IF full_text = Empty /\ TLen(abstract) > PromoteMinLen
          THEN Content(IF TLen(abstract) > TruncateLen
                       THEN TCat(TTake(abstract, TruncateLen), Ellipsis)
                       ELSE abstract,
                       abstract, "api", <<"et">>, abstract_parts, body_parts)
          ELSE Content(abstract, full_text, "api", <<"et">>, abstract_parts, body_parts)

(***************************************************************************)
(* content_extractor.py: structured (XML) extraction, lxml strategy        *)
(***************************************************************************)
\* XPath local-name(): the tag without its namespace
local_name(tag) == IF tag = <<>> THEN "" ELSE tag[Len(tag)]

\* el.itertext(): the text and tail strings inside el, in document order
RECURSIVE itertext(_, _)
RECURSIVE itertext_children(_, _)
itertext(tree, el) ==
  (IF tree[el].text # Empty THEN <<tree[el].text>> ELSE <<>>)
    \o itertext_children(tree, Children(tree, el))
itertext_children(tree, cs) ==
  IF cs = <<>> THEN <<>>
  ELSE itertext(tree, cs[1])
         \o (IF tree[cs[1]].tail # Empty THEN <<tree[cs[1]].tail>> ELSE <<>>)
         \o itertext_children(tree, Tail(cs))

\* XPath normalize-space(.) of an element
normalize_space(tree, el) == TStrip(TCollapse(TJoin(Empty, itertext(tree, el))))

\* t = (el.text or "") + "".join(el.itertext()); t = re.sub(r"\s+", " ", t).strip()
lxml_text(tree, el) ==
  TStrip(TCollapse(TCat(tree[el].text, TJoin(Empty, itertext(tree, el)))))

\* root.xpath("//*[local-name()=name and string-length(normalize-space(.))>20]")
xpath_abstract(tree, name) ==
  SelectSeq(Indices(1, Len(tree)),
            LAMBDA k : local_name(tree[k].tag) = name
                       /\ TLen(normalize_space(tree, k)) > AbstractMinLen)

lxml_abstract_elements(tree) ==
  xpath_abstract(tree, "description") \o xpath_abstract(tree, "abstract")

lxml_abstract_parts(tree) ==
  LET els == lxml_abstract_elements(tree)
      texts == [k \in 1..Len(els) |-> lxml_text(tree, els[k])]
  IN FirstN(KeepDistinctLong(<<>>, texts, AbstractMinLen), AbstractCap)

lxml_body_parts(tree) ==
  LET body == SelectSeq(Indices(1, Len(tree)), LAMBDA k : local_name(tree[k].tag) = "body")
      els == IF body = <<>> THEN <<>>
             ELSE SelectSeq(Descendants(tree, body[1]),
                            LAMBDA k : local_name(tree[k].tag) \in {"para", "section"})
      inBody == KeepLong([k \in 1..Len(els) |-> lxml_text(tree, els[k])], BodyMinLen)
      paras == SelectSeq(Indices(1, Len(tree)), LAMBDA k : local_name(tree[k].tag) = "para")
  IN IF inBody # <<>> THEN inBody
     ELSE KeepLong([k \in 1..Len(paras) |-> lxml_text(tree, paras[k])], ParaMinLen)

\* an lxml strategy that gives up on a parse error instead of falling back
extract_lxml_no_fallback(raw_body) ==
  IF raw_body.lxml = None THEN Content(Empty, Empty, "api", <<"lxml">>, <<>>, <<>>)
  ELSE LET root == raw_body.lxml[1]
           abstract_parts == lxml_abstract_parts(root)
           body_parts == lxml_body_parts(root)
           abstract == IF abstract_parts # <<>> THEN TJoin(BlankLine, abstract_parts) ELSE Empty
           full_text == IF body_parts # <<>> THEN TJoin(BlankLine, body_parts) ELSE Empty
       IN IF full_text = Empty /\ TLen(abstract) > PromoteMinLen
          THEN Content(abstract, abstract, "api", <<"lxml">>, abstract_parts, body_parts)
          ELSE Content(abstract, full_text, "api", <<"lxml">>, abstract_parts, body_parts)

extract_from_api_xml_lxml(raw_body) ==
  IF raw_body.lxml = None
  THEN LET r == extract_from_api_xml(raw_body)
       IN [r EXCEPT !.via = <<"lxml">> \o @]
  ELSE LET root == raw_body.lxml[1]
           abstract_parts == lxml_abstract_parts(root)
           body_parts == lxml_body_parts(root)
           abstract == IF abstract_parts # <<>> THEN TJoin(BlankLine, abstract_parts) ELSE Empty
           full_text == IF body_parts # <<>> THEN TJoin(BlankLine, body_parts) ELSE Empty
       IN IF full_text = Empty /\ TLen(abstract) > PromoteMinLen
          THEN Content(abstract, abstract, "api", <<"lxml">>, abstract_parts, body_parts)
          ELSE Content(abstract, full_text, "api", <<"lxml">>, abstract_parts, body_parts)

(***************************************************************************)
(* content_extractor.py: HTML extraction (BeautifulSoup).                  *)
(* An element is [tag, class, id, data_abstract, depth, text, tail]: class *)
(* is the list of its class tokens (<<>> without a class attribute), each  *)
(* a sequence of characters; id is "" without an id attribute.             *)
(***************************************************************************)
HtmlAbstractMinLen == 20
HtmlAbstractCap == 3
HtmlBodyMinLen == 40
HtmlParaMinLen == 80

\* the value of the class attribute: its tokens joined by single spaces
RECURSIVE ClassString(_)
ClassString(tokens) ==
  IF tokens = <<>> THEN <<>>
  ELSE IF Len(tokens) = 1 THEN tokens[1]
  ELSE tokens[1] \o <<" ">> \o ClassString(Tail(tokens))

\* A simple CSS selector tag.cls#id[class*=sub][data-abstract]; an unused
\* part is "" (tag, id), <<>> (cls, sub) or FALSE (data).
Sel(tag, cls, sub, id, data) ==
  [tag |-> tag, cls |-> cls, sub |-> sub, id |-> id, data |-> data]

c_abstract == <<"a","b","s","t","r","a","c","t">>
c_abstract_group == <<"a","b","s","t","r","a","c","t","-","g","r","o","u","p">>
c_body == <<"b","o","d","y">>
c_Body == <<"B","o","d","y">>
c_article_body == <<"a","r","t","i","c","l","e","-","b","o","d","y">>
c_main_content == <<"m","a","i","n","-","c","o","n","t","e","n","t">>

AbstractSelectors ==
  << Sel("", <<>>, c_abstract, "", FALSE),
     Sel("", c_abstract, <<>>, "", FALSE),
     Sel("", <<>>, <<>>, "", TRUE),
     Sel("div", c_abstract_group, <<>>, "", FALSE) >>

BodySelectors ==
  << Sel("", c_body, <<>>, "", FALSE),
     Sel("", <<>>, c_article_body, "", FALSE),
     Sel("", <<>>, c_Body, "", FALSE),
     Sel("div", c_article_body, <<>>, "", FALSE),
     Sel("section", c_body, <<>>, "", FALSE),
     Sel("", <<>>, <<>>, "body", FALSE),
     Sel("", c_main_content, <<>>, "", FALSE) >>

Matches(node, sel) ==
  /\ sel.tag = "" \/ node.tag = sel.tag
  /\ sel.cls = <<>> \/ sel.cls \in Range(node.class)
  /\ sel.sub = <<>> \/ (node.class # <<>> /\ Contains(ClassString(node.class), sel.sub))
  /\ sel.id = "" \/ node.id = sel.id
  /\ ~sel.data \/ node.data_abstract

\* soup.select(sel): the matching elements in document order
select(soup, sel) ==
  SelectSeq(Indices(1, Len(soup)), LAMBDA k : Matches(soup[k], sel))

\* el.get_text(separator=" ", strip=True): the strings inside el, each
\* stripped, the empty ones dropped, joined by one space
get_text(soup, el) ==
  LET strings == itertext(soup, el)
      stripped == [k \in 1..Len(strings) |-> TStrip(strings[k])]
  IN TJoin(SP, SelectSeq(stripped, LAMBDA t : t # Empty))

\* el.find_all(["p", "div"], recursive=True)
find_all_p_div(soup, el) ==
  SelectSeq(Descendants(soup, el), LAMBDA k : soup[k].tag \in {"p", "div"})

\* p.find_all(["p", "div"], recursive=False): the direct children only
direct_p_div(soup, p) ==
  SelectSeq(Children(soup, p), LAMBDA k : soup[k].tag \in {"p", "div"})

\* the paragraphs one container adds to body_parts (lines 206-211)
container_paragraphs(soup, el) ==
  SelectSeq(find_all_p_div(soup, el),
            LAMBDA p : /\ direct_p_div(soup, p) = <<>>
                       /\ get_text(soup, p) # Empty
                       /\ TLen(get_text(soup, p)) > HtmlBodyMinLen)

\* `for el in soup.select(sel): ...; if body_parts: break` (lines 204-213):
\* the paragraphs of the first container that gives any
RECURSIVE scan_containers(_, _)
scan_containers(soup, els) ==
  IF els = <<>> THEN [container |-> 0, paragraphs |-> <<>>]
  ELSE IF container_paragraphs(soup, els[1]) # <<>>
       THEN [container |-> els[1], paragraphs |-> container_paragraphs(soup, els[1])]
       ELSE scan_containers(soup, Tail(els))

\* the selector loop without its `break`: every selector adds its paragraphs
RECURSIVE scan_selectors_merged(_, _)
scan_selectors_merged(soup, k) ==
  IF k > Len(BodySelectors) THEN [sel |-> 0, container |-> 0, paragraphs |-> <<>>]
  ELSE LET found == scan_containers(soup, select(soup, BodySelectors[k]))
           later == scan_selectors_merged(soup, k + 1)
       IN IF found.paragraphs # <<>>
          THEN [sel |-> k, container |-> found.container,
                paragraphs |-> found.paragraphs \o later.paragraphs]
          ELSE later

\* `for sel in (...): ...; if body_parts: break` (lines 195-215), from the
\* k-th selector on
RECURSIVE scan_selectors(_, _)
scan_selectors(soup, k) ==
  IF k > Len(BodySelectors) THEN [sel |-> 0, container |-> 0, paragraphs |-> <<>>]
  ELSE LET found == scan_containers(soup, select(soup, BodySelectors[k]))
       IN IF found.paragraphs # <<>>
          THEN [sel |-> k, container |-> found.container, paragraphs |-> found.paragraphs]
          ELSE scan_selectors(soup, k + 1)

\* the whole-document scan of the long paragraphs (lines 217-222)
long_paragraphs(soup) ==
  SelectSeq(Indices(1, Len(soup)),
            LAMBDA k : /\ soup[k].tag = "p"
                       /\ get_text(soup, k) # Empty
                       /\ TLen(get_text(soup, k)) > HtmlParaMinLen)

\* the elements matched by the abstract selectors, selector by selector
RECURSIVE html_abstract_elements(_, _)
html_abstract_elements(soup, k) ==
  IF k > Len(AbstractSelectors) THEN <<>>
  ELSE select(soup, AbstractSelectors[k]) \o html_abstract_elements(soup, k + 1)

html_abstract_parts(soup) ==
  LET els == html_abstract_elements(soup, 1)
      texts == [k \in 1..Len(els) |-> get_text(soup, els[k])]
  IN FirstN(KeepDistinctLong(<<>>, texts, HtmlAbstractMinLen), HtmlAbstractCap)

\* The result carries, next to ExtractedContent, where the body came from:
\* the selector (0: none) and container that gave candidates, and the
\* elements whose text was kept.
extract_from_html(raw_body) ==
  LET soup == raw_body.soup
      abstract_parts == html_abstract_parts(soup)
      found == scan_selectors(soup, 1)
      body_els == IF found.paragraphs # <<>> THEN found.paragraphs
                  ELSE long_paragraphs(soup)
      body_parts == [k \in 1..Len(body_els) |-> get_text(soup, body_els[k])]
      abstract == IF abstract_parts # <<>> THEN TJoin(BlankLine, abstract_parts) ELSE Empty
      full_text == IF body_parts # <<>> THEN TJoin(BlankLine, body_parts) ELSE Empty
  IN Content(abstract,
             IF full_text = Empty /\ abstract # Empty THEN abstract ELSE full_text,
             "crawl", <<"html">>, abstract_parts, body_parts)
     @@ [sel |-> found.sel, container |-> found.container, body_els |-> body_els]

(***************************************************************************)
(* content_extractor.py: dispatch                                          *)
(***************************************************************************)
s_xml == <<"x","m","l">>

\* a dispatch that reads the content type as it is written
UsesXmlCaseSensitive(content_type, source) ==
  Contains(content_type, s_xml) \/ source = "api"

UsesXml(content_type, source) ==
  Contains(Lower(content_type), s_xml) \/ source = "api"

\* lines 236-239: the lxml strategy is tried first; it catches its own parse
\* failure (line 122) and never raises, so the except branch is not taken
extract_content(fetched) ==
  IF UsesXml(fetched.content_type, fetched.source)
  THEN extract_from_api_xml_lxml(fetched.raw_body)
  ELSE extract_from_html(fetched.raw_body)

(***************************************************************************)
(* rss_parser.py: RSSItem                                                  *)
(***************************************************************************)
RSSItem(title, link, doi, pii) == [title |-> title, link |-> link, doi |-> doi, pii |-> pii]

\* a resolver that forgets the PII
article_id_doi_only(item) ==
  IF Truthy(item.doi) THEN Some(<<"doi", item.doi[1]>>) ELSE None

article_id(item) ==
  IF Truthy(item.doi) THEN Some(<<"doi", item.doi[1]>>)
  ELSE IF Truthy(item.pii) THEN Some(<<"pii", item.pii[1]>>)
  ELSE None

(***************************************************************************)
(* article_fetcher.py.  An HTTP exchange is [ok, header, body]: ok is      *)
(* FALSE when requests raises RequestException (transport failure, or a    *)
(* non-2xx status through raise_for_status); header is the Content-Type    *)
(* header, <<>> when absent.                                               *)
(***************************************************************************)
ct_application_xml == <<"a","p","p","l","i","c","a","t","i","o","n","/","x","m","l">>
ct_text_html == <<"t","e","x","t","/","h","t","m","l">>

FetchedArticle(source, raw_body, content_type, item) ==
  [source |-> source, raw_body |-> raw_body, content_type |-> content_type, item |-> item]

\* resp.headers.get("Content-Type", "").split(";")[0].strip()
MimeOf(header) == Strip(BeforeSemicolon(header))

\* (api_key or ELSEVIER_API_KEY).strip()
EffectiveKey(api_key, config_key) ==
  Strip(IF api_key # None /\ api_key[1] # <<>> THEN api_key[1] ELSE config_key)

\* whether fetch_via_api gets as far as sending its request
ApiRequestSent(it, api_key, config_key) ==
  EffectiveKey(api_key, config_key) # <<>> /\ article_id(it) # None

fetch_via_api(it, api_key, config_key, resp) ==
  IF EffectiveKey(api_key, config_key) = <<>> THEN None
  ELSE IF article_id(it) = None THEN None
  ELSE IF ~resp.ok THEN None
  ELSE Some(FetchedArticle("api", resp.body,
                           IF MimeOf(resp.header) # <<>> THEN MimeOf(resp.header)
                           ELSE ct_application_xml,
                           it))

fetch_via_crawl(it, resp) ==
  IF ~resp.ok THEN None
  ELSE Some(FetchedArticle("crawl", resp.body,
                           IF MimeOf(resp.header) # <<>> THEN MimeOf(resp.header)
                           ELSE ct_text_html,
                           it))

(***************************************************************************)
(* main.py                                                                 *)
(***************************************************************************)
RECURSIVE dedupe_from(_, _, _)
dedupe_from(seen, out, xs) ==
  IF xs = <<>> THEN out
  ELSE IF Head(xs).link \notin seen
       THEN dedupe_from(seen \cup {Head(xs).link}, Append(out, Head(xs)), Tail(xs))
       ELSE dedupe_from(seen, out, Tail(xs))

\* a dedupe that never records what it has seen
dedupe_seen_forgotten(xs) == xs

dedupe_by_link(xs) == dedupe_from({}, <<>>, xs)

\* xs[:n] for any integer n (a negative n counts from the end)
SliceTo(xs, n) ==
  IF n >= 0 THEN SubSeq(xs, 1, Min(n, Len(xs)))
  ELSE SubSeq(xs, 1, IF Len(xs) + n > 0 THEN Len(xs) + n ELSE 0)

NoIdentifierError == "no_doi_or_pii"
FetchFailedError == "fetch_failed"

SkipRecord(it, error) ==
  [title |-> it.title, link |-> it.link, doi |-> it.doi, pii |-> it.pii,
   abstract |-> Empty, full_text |-> Empty, source |-> "skip", error |-> error]

ResultRecord(it, ex) ==
  [title |-> it.title, link |-> it.link, doi |-> it.doi, pii |-> it.pii,
   abstract |-> ex.abstract, full_text |-> ex.full_text, source |-> ex.source]

(***************************************************************************)
(* Inputs.                                                                 *)
(***************************************************************************)
MaxFeed == 3
MaxDedupe == 4
MaxXmlNodes == 3
MaxAbstractNodes == 4
MaxHtmlNodes == 4

XmlNode(tag, depth, text, tail) == [tag |-> tag, depth |-> depth, text |-> text, tail |-> tail]

HtmlNode(tag, class, id, data, depth, text, tail) ==
  [tag |-> tag, class |-> class, id |-> id, data_abstract |-> data,
   depth |-> depth, text |-> text, tail |-> tail]

\* the depths of the elements of a tree of n elements, in document order:
\* the root at 0, every other element at 1 to one more than the one before
DepthSeqs(n) ==
  {d \in [1..n -> 0..(n - 1)] :
     d[1] = 0 /\ \A k \in 2..n : d[k] >= 1 /\ d[k] <= d[k - 1] + 1}

\* the tree of a root, the elements after it and their depths
MakeTree(root, rest, depths) ==
  [k \in 1..Len(depths) |->
     IF k = 1 THEN root ELSE [rest[k - 1] EXCEPT !.depth = depths[k]]]

\* texts round the thresholds of the code
Short == Rep("s", 10)
TextA == Rep("a", 25)
TextB == Rep("b", 25)
Spaced == TCat(TCat(Rep("c", 30), Rep(" ", 2)), Rep("c", 30))
Long == Rep("l", 260)
VeryLong == Rep("v", 600)

t_root == <<"root">>
t_description == <<"{", "http://purl.org/dc/elements/1.1/", "}", "description">>
t_abstract == <<"abstract">>
t_ce_abstract == <<"{", "http://www.elsevier.com/xml/ani/dtd", "}", "abstract">>
t_body == <<"body">>
t_section == <<"section">>
t_para == <<"{", "http://www.elsevier.com/xml/ani/dtd", "}", "para">>
t_p == <<"p">>

\* general documents: abstracts, a body, sections and paragraphs
XmlRoots == {XmlNode(t_root, 0, Empty, Empty)}
XmlPool ==
  {XmlNode(tag, 1, text, Empty) :
     tag \in {t_description, t_abstract, t_para}, text \in {TextA, Spaced, Long}}
  \cup {XmlNode(t_body, 1, Empty, Empty), XmlNode(t_section, 1, Short, SP),
        XmlNode(t_p, 1, Spaced, Empty), XmlNode(t_abstract, 1, VeryLong, Empty)}

\* documents of abstract candidates only
AbstractRoots == {XmlNode(t_root, 0, Empty, Empty), XmlNode(t_ce_abstract, 0, TextA, Empty)}
AbstractPool ==
  {XmlNode(tag, 1, text, Empty) :
     tag \in {t_description, t_ce_abstract}, text \in {Short, TextA, TextB}}

\* A raw body: what each parser makes of it.  Text that is not well-formed
\* XML is rejected by both XML parsers; a well-formed document may still be
\* rejected by one of them (lxml refuses, for one, very deep documents).
RawBody(lxml, et, soup) == [lxml |-> lxml, et |-> et, soup |-> soup]

WellFormed(raw) == raw.lxml # None \/ raw.et # None

Malformed == RawBody(None, None, <<>>)

\* the bodies whose tree is `tree`, by which parsers accept them
BodiesOf(tree) ==
  {RawBody(Some(tree), Some(tree), <<>>), RawBody(None, Some(tree), <<>>),
   RawBody(Some(tree), None, <<>>)}

\* Content-Type headers
h_text_html_utf8 == <<"t","e","x","t","/","h","t","m","l",";"," ","c","h","a","r","s","e","t","=","U","T","F","-","8">>
h_xhtml == <<"A","p","p","l","i","c","a","t","i","o","n","/","X","H","T","M","L","+","X","M","L">>
h_text_xml == <<"t","e","x","t","/","x","m","l",";","c","h","a","r","s","e","t","=","U","T","F","-","8">>
h_text_plain == <<" ","t","e","x","t","/","p","l","a","i","n"," ">>

SampleXml ==
  << XmlNode(t_root, 0, Empty, Empty),
     XmlNode(t_ce_abstract, 1, TextA, Empty),
     XmlNode(t_body, 1, Empty, Empty),
     XmlNode(t_para, 2, Spaced, Empty) >>

\* a page as BeautifulSoup gives it, from its <body> element down
SamplePage ==
  << HtmlNode("body", <<>>, "", FALSE, 0, Empty, Empty),
     HtmlNode("div", <<c_abstract>>, "", FALSE, 1, TextA, Empty),
     HtmlNode("div", <<c_body>>, "", FALSE, 1, Empty, Empty),
     HtmlNode("p", <<>>, "", FALSE, 2, Spaced, Empty) >>

\* the same document as the HTML parser reads it: unknown elements, no class
SampleXmlAsPage ==
  << HtmlNode("body", <<>>, "", FALSE, 0, Empty, Empty),
     HtmlNode("root", <<>>, "", FALSE, 1, Empty, Empty),
     HtmlNode("abstract", <<>>, "", FALSE, 2, TextA, Empty),
     HtmlNode("para", <<>>, "", FALSE, 2, Spaced, Empty) >>

BodyXml == RawBody(Some(SampleXml), Some(SampleXml), SampleXmlAsPage)
BodyPage == RawBody(None, None, SamplePage)

Response(ok, header, body) == [ok |-> ok, header |-> header, body |-> body]

Failure == Response(FALSE, <<>>, Malformed)

ApiResponses ==
  {Failure, Response(TRUE, <<>>, BodyXml), Response(TRUE, h_text_xml, BodyXml),
   Response(TRUE, h_text_html_utf8, BodyPage)}

CrawlResponses ==
  {Failure, Response(TRUE, h_text_html_utf8, BodyPage), Response(TRUE, <<>>, BodyPage),
   Response(TRUE, h_xhtml, BodyXml), Response(TRUE, h_text_plain, BodyXml)}

\* feed entries: the PII is read from the link, so entries with one link
\* have one PII; titles tell the entries apart
ItemPool ==
  { RSSItem("A", "https://sd/pii/S1", Some("10.1016/j.a"), Some("S1")),
    RSSItem("B", "https://sd/pii/S1", None, Some("S1")),
    RSSItem("C", "https://other/2", None, None),
    RSSItem("D", "https://other/2", Some("10.1016/j.d"), None) }

FeedsUpTo(n) == UNION {[1..k -> ItemPool] : k \in 0..n}

k_key == <<"k", "e", "y">>

(***************************************************************************)
(* State.                                                                  *)
(***************************************************************************)
VARIABLES
  ELSEVIER_API_KEY, \* config.py: the configured key, stripped
  prefer_api,       \* run / fetch_article parameter
  limit,            \* run parameter: None or Some(n)
  feed,             \* what parse_feeds yields
  items,            \* run: the local list `items`
  i,                \* run: the loop index (1-based)
  results,          \* run: the local list `results`
  pc,               \* where the program is
  item,             \* fetch_article: its item argument
  api_key,          \* fetch_article: its api_key argument
  trace,            \* fetch_article: the channel calls of this call, in order
  fetched,          \* the value fetch_article returned
  extracted,        \* the value the extraction returned
  calls,            \* run: the <<index, operation>> pairs performed so far
  raw_body          \* extraction on its own: the body it is given

vars == <<ELSEVIER_API_KEY, prefer_api, limit, feed, items, i, results, pc, item,
          api_key, trace, fetched, extracted, calls, raw_body>>

config == <<ELSEVIER_API_KEY, prefer_api, limit, feed>>

NoItem == RSSItem("", "", None, None)

(***************************************************************************)
(* fetch_article, one channel call per step.                               *)
(***************************************************************************)
\* a fetch_article that forgets the preference
TriesApiAlways(prefer) == TRUE

\* line 109: whether the API channel is tried
TriesApi(prefer) == prefer

ChannelCall(channel, sent, out) == [channel |-> channel, sent |-> sent, out |-> out]

FetchViaApi ==
  /\ pc = "fetch"
  /\ TriesApi(prefer_api)
  /\ \E resp \in ApiResponses :
       LET result == fetch_via_api(item, api_key, ELSEVIER_API_KEY, resp)
       IN /\ trace' = Append(trace, ChannelCall("api",
                               ApiRequestSent(item, api_key, ELSEVIER_API_KEY), result))
          /\ IF result # None
             THEN fetched' = result /\ pc' = "fetched"
             ELSE fetched' = fetched /\ pc' = "crawl"
  /\ calls' = calls \cup {<<i, "api">>}
  /\ UNCHANGED <<config, items, i, results, item, api_key, extracted, raw_body>>

FetchViaCrawl ==
  /\ pc = "crawl" \/ (pc = "fetch" /\ ~TriesApi(prefer_api))
  /\ \E resp \in CrawlResponses :
       LET result == fetch_via_crawl(item, resp)
       IN /\ trace' = Append(trace, ChannelCall("crawl", TRUE, result))
          /\ fetched' = result
  /\ pc' = "fetched"
  /\ calls' = calls \cup {<<i, "crawl">>}
  /\ UNCHANGED <<config, items, i, results, item, api_key, extracted, raw_body>>

\* main.py line 88 (and any caller of the pipeline): extract what was fetched
ExtractContent ==
  /\ pc = "fetched"
  /\ fetched # None
  /\ extracted' = Some(extract_content(fetched[1]))
  /\ pc' = "extracted"
  /\ calls' = calls \cup {<<i, "extract">>}
  /\ UNCHANGED <<config, items, i, results, item, api_key, trace, fetched, raw_body>>

(***************************************************************************)
(* run                                                                     *)
(***************************************************************************)
Dedupe ==
  /\ pc = "start"
  /\ items' = dedupe_by_link(feed)
  /\ pc' = "limit"
  /\ UNCHANGED <<config, i, results, item, api_key, trace, fetched, extracted, calls,
                 raw_body>>

Limit ==
  /\ pc = "limit"
  /\ items' = IF limit # None THEN SliceTo(items, limit[1]) ELSE items
  /\ pc' = "loop"
  /\ UNCHANGED <<config, i, results, item, api_key, trace, fetched, extracted, calls,
                 raw_body>>

\* a skip without its `continue`: the record is written and the fetch follows
SkipItemFallsThrough ==
  /\ pc = "loop"
  /\ i <= Len(items)
  /\ article_id(items[i]) = None
  /\ results' = Append(results, SkipRecord(items[i], NoIdentifierError))
  /\ item' = items[i]
  /\ trace' = <<>>
  /\ pc' = "fetch"
  /\ UNCHANGED <<config, items, i, api_key, fetched, extracted, calls, raw_body>>

SkipItem ==
  /\ pc = "loop"
  /\ i <= Len(items)
  /\ article_id(items[i]) = None
  /\ results' = Append(results, SkipRecord(items[i], NoIdentifierError))
  /\ i' = i + 1
  /\ UNCHANGED <<config, items, pc, item, api_key, trace, fetched, extracted, calls,
                 raw_body>>

\* lines 68-73: the call of fetch_article
CallFetch ==
  /\ pc = "loop"
  /\ i <= Len(items)
  /\ article_id(items[i]) # None
  /\ item' = items[i]
  /\ api_key' = IF ELSEVIER_API_KEY # <<>> THEN Some(ELSEVIER_API_KEY) ELSE None
  /\ trace' = <<>>
  /\ fetched' = None
  /\ extracted' = None
  /\ pc' = "fetch"
  /\ UNCHANGED <<config, items, i, results, calls, raw_body>>

FetchFailed ==
  /\ pc = "fetched"
  /\ fetched = None
  /\ results' = Append(results, SkipRecord(item, FetchFailedError))
  /\ i' = i + 1
  /\ pc' = "loop"
  /\ UNCHANGED <<config, items, item, api_key, trace, fetched, extracted, calls, raw_body>>

AppendResult ==
  /\ pc = "extracted"
  /\ results' = Append(results, ResultRecord(item, extracted[1]))
  /\ i' = i + 1
  /\ pc' = "loop"
  /\ UNCHANGED <<config, items, item, api_key, trace, fetched, extracted, calls, raw_body>>

\* lines 105-109: the loop is over, the results are written
Finish ==
  /\ pc = "loop"
  /\ i > Len(items)
  /\ pc' = "done"
  /\ UNCHANGED <<config, items, i, results, item, api_key, trace, fetched, extracted,
                 calls, raw_body>>

LimitPool == {None, Some(1), Some(-1)}

InitRun(feeds) ==
  /\ ELSEVIER_API_KEY \in {<<>>, k_key}
  /\ prefer_api \in BOOLEAN
  /\ limit \in LimitPool
  /\ feed \in feeds
  /\ items = <<>>
  /\ i = 1
  /\ results = <<>>
  /\ pc = "start"
  /\ item = NoItem
  /\ api_key = None
  /\ trace = <<>>
  /\ fetched = None
  /\ extracted = None
  /\ calls = {}
  /\ raw_body = Malformed

Init == InitRun(FeedsUpTo(MaxFeed))

Next ==
  \/ Dedupe
  \/ Limit
  \/ SkipItem
  \/ CallFetch
  \/ FetchViaApi
  \/ FetchViaCrawl
  \/ FetchFailed
  \/ ExtractContent
  \/ AppendResult
  \/ Finish

Spec == Init /\ [][Next]_vars

\* dedupe_by_link on its own, on longer feeds
InitDedupe ==
  /\ InitRun(FeedsUpTo(MaxDedupe))
  /\ limit = None
  /\ prefer_api
  /\ ELSEVIER_API_KEY = <<>>

NextDedupe == Dedupe \/ Limit

SpecDedupe == InitDedupe /\ [][NextDedupe]_vars

\* fetch_article and extract_content for one item, whatever the item, the
\* preference and the key argument
KeyArguments == {None, Some(<<>>), Some(<<" ">>), Some(k_key)}

InitItem ==
  /\ ELSEVIER_API_KEY \in {<<>>, k_key}
  /\ prefer_api \in BOOLEAN
  /\ limit = None
  /\ feed = <<>>
  /\ items = <<>>
  /\ i = 1
  /\ results = <<>>
  /\ pc = "fetch"
  /\ item \in ItemPool
  /\ api_key \in KeyArguments
  /\ trace = <<>>
  /\ fetched = None
  /\ extracted = None
  /\ calls = {}
  /\ raw_body = Malformed

NextItem == FetchViaApi \/ FetchViaCrawl \/ ExtractContent

SpecItem == InitItem /\ [][NextItem]_vars

(***************************************************************************)
(* Structured extraction on its own, through each of its entry points.     *)
(***************************************************************************)
RunExtractContent ==
  /\ pc = "xml"
  /\ extracted' = Some(extract_content(
                         FetchedArticle("api", raw_body, ct_application_xml, NoItem)))
  /\ pc' = "extract_content"
  /\ UNCHANGED <<config, items, i, results, item, api_key, trace, fetched, calls, raw_body>>

RunLxml ==
  /\ pc = "xml"
  /\ extracted' = Some(extract_from_api_xml_lxml(raw_body))
  /\ pc' = "extract_from_api_xml_lxml"
  /\ UNCHANGED <<config, items, i, results, item, api_key, trace, fetched, calls, raw_body>>

RunEt ==
  /\ pc = "xml"
  /\ extracted' = Some(extract_from_api_xml(raw_body))
  /\ pc' = "extract_from_api_xml"
  /\ UNCHANGED <<config, items, i, results, item, api_key, trace, fetched, calls, raw_body>>

InitXml ==
  /\ ELSEVIER_API_KEY = <<>>
  /\ prefer_api = TRUE
  /\ limit = None
  /\ feed = <<>>
  /\ items = <<>>
  /\ i = 1
  /\ results = <<>>
  /\ pc = "xml"
  /\ item = NoItem
  /\ api_key = None
  /\ trace = <<>>
  /\ fetched = None
  /\ extracted = None
  /\ calls = {}
  /\ \/ raw_body = Malformed
     \/ \E n \in 1..MaxXmlNodes :
          \E depths \in DepthSeqs(n), root \in XmlRoots, rest \in [1..(n - 1) -> XmlPool] :
            raw_body \in BodiesOf(MakeTree(root, rest, depths))
     \/ \E n \in 1..MaxAbstractNodes :
          \E depths \in DepthSeqs(n), root \in AbstractRoots,
             rest \in [1..(n - 1) -> AbstractPool] :
            raw_body = RawBody(Some(MakeTree(root, rest, depths)),
                               Some(MakeTree(root, rest, depths)), <<>>)

NextXml == RunExtractContent \/ RunLxml \/ RunEt

SpecXml == InitXml /\ [][NextXml]_vars

(***************************************************************************)
(* HTML extraction on its own.                                             *)
(***************************************************************************)
Para50 == Rep("p", 50)
Para90 == Rep("q", 90)

HtmlRoots == {HtmlNode("body", <<>>, "", FALSE, 0, Empty, Empty)}
HtmlPool ==
  { HtmlNode("div", <<c_body>>, "", FALSE, 1, Empty, Empty),
    HtmlNode("div", <<c_main_content>>, "", FALSE, 1, Empty, Empty),
    HtmlNode("span", <<>>, "", FALSE, 1, Empty, Empty),
    HtmlNode("p", <<>>, "", FALSE, 1, Para50, Empty),
    HtmlNode("p", <<>>, "", FALSE, 1, Para90, Empty) }

\* the HTML parser closes an open p at the start of a p or div: no p has a
\* p or div inside it, at any depth
IsParsedPage(soup) ==
  \A k \in 1..Len(soup) :
    soup[k].tag = "p" => find_all_p_div(soup, k) = <<>>

RunHtml ==
  /\ pc = "html"
  /\ extracted' = Some(extract_from_html(raw_body))
  /\ pc' = "extract_from_html"
  /\ UNCHANGED <<config, items, i, results, item, api_key, trace, fetched, calls, raw_body>>

InitHtml ==
  /\ ELSEVIER_API_KEY = <<>>
  /\ prefer_api = TRUE
  /\ limit = None
  /\ feed = <<>>
  /\ items = <<>>
  /\ i = 1
  /\ results = <<>>
  /\ pc = "html"
  /\ item = NoItem
  /\ api_key = None
  /\ trace = <<>>
  /\ fetched = None
  /\ extracted = None
  /\ calls = {}
  /\ \E n \in 1..(MaxHtmlNodes + 1) :
       \E depths \in DepthSeqs(n), root \in HtmlRoots, rest \in [1..(n - 1) -> HtmlPool] :
         /\ IsParsedPage(MakeTree(root, rest, depths))
         /\ raw_body = RawBody(None, None, MakeTree(root, rest, depths))

NextHtml == RunHtml

SpecHtml == InitHtml /\ [][NextHtml]_vars

(***************************************************************************)
(* Properties.                                                             *)
(***************************************************************************)
Returned == pc \in {"fetched", "extracted"}

CallsOf(channel) == Len(SelectSeq(trace, LAMBDA c : c.channel = channel))

\* C1: in every call of fetch_article, with prefer_api the API channel is
\* called first and at most once; a document from it is the result and the
\* crawl channel is not called; if it gives nothing (no key, no identifier,
\* a failed request) the crawl channel is called exactly once and its
\* outcome is the result.  Without prefer_api the API channel is never
\* called and the result is the outcome of one crawl call.
C1_FetchOrder ==
  /\ CallsOf("api") <= 1
  /\ CallsOf("crawl") <= 1
  /\ ~prefer_api => CallsOf("api") = 0
  /\ (prefer_api /\ trace # <<>>) => trace[1].channel = "api"
  /\ \A k \in 1..Len(trace) :
       (trace[k].channel = "api" /\ ~trace[k].sent) => trace[k].out = None
  /\ Returned =>
       IF prefer_api /\ trace[1].out # None
       THEN Len(trace) = 1 /\ fetched = trace[1].out /\ fetched[1].source = "api"
       ELSE IF prefer_api
       THEN /\ Len(trace) = 2
            /\ trace[2].channel = "crawl"
            /\ fetched = trace[2].out
       ELSE /\ Len(trace) = 1
            /\ trace[1].channel = "crawl"
            /\ fetched = trace[1].out

\* the API request failed, the crawl that followed gave the document
C1_Witness ==
  /\ pc = "fetched"
  /\ prefer_api
  /\ Len(trace) = 2
  /\ trace[1].sent
  /\ trace[1].out = None
  /\ fetched # None
  /\ fetched[1].source = "crawl"

HasIdentifier(it) == (it.doi # None /\ it.doi[1] # "") \/ (it.pii # None /\ it.pii[1] # "")

\* the records of the items processed so far, with `code` as the error code
\* of an item without identifier
ItemRecords(code) ==
  /\ Len(results) = i - 1
  /\ Len(results) <= Len(items)
  /\ pc = "done" => Len(results) = Len(items)
  /\ \A k \in 1..Len(results) :
       LET r == results[k]
           it == items[k]
       IN /\ r.title = it.title /\ r.link = it.link /\ r.doi = it.doi /\ r.pii = it.pii
          /\ \/ /\ r.source \in {"api", "crawl"}
                /\ DOMAIN r = {"title", "link", "doi", "pii", "abstract", "full_text",
                               "source"}
                /\ <<k, "extract">> \in calls
             \/ /\ r.source = "skip"
                /\ r.error \in {code, "fetch_failed"}
                /\ r.abstract = Empty /\ r.full_text = Empty
                /\ <<k, "extract">> \notin calls
          /\ (r.source = "skip" /\ r.error = code) <=> ~HasIdentifier(it)
          /\ (r.source = "skip" /\ r.error = "fetch_failed")
               <=> (HasIdentifier(it) /\ <<k, "crawl">> \in calls
                    /\ <<k, "extract">> \notin calls)
  /\ (pc = "loop" /\ i > 1 /\ item = items[i - 1] /\ HasIdentifier(item)) =>
       IF fetched = None
       THEN results[i - 1].source = "skip" /\ results[i - 1].error = "fetch_failed"
       ELSE /\ results[i - 1].source = extracted[1].source
            /\ results[i - 1].abstract = extracted[1].abstract
            /\ results[i - 1].full_text = extracted[1].full_text

\* C2 as stated: one record per processed item, an extraction result with
\* source api or crawl and the item's identifiers, or a failure record with
\* source skip and an error code of {no_identifier, fetch_failed}.
C2_AsStated == ItemRecords("no_identifier")

\* C2: one record per processed item, an extraction result with source api
\* or crawl and the item's identifiers, or a failure record with source skip
\* and an error code of {no_doi_or_pii, fetch_failed}: no_doi_or_pii when the
\* item has neither DOI nor PII, fetch_failed when the fetch returned nothing.
C2_ItemRecords == ItemRecords("no_doi_or_pii")

\* a run that skipped an item without identifier and extracted the next
C2_Witness ==
  /\ pc = "done"
  /\ Len(results) = 2
  /\ results[1].source = "skip" /\ results[1].error = "no_doi_or_pii"
  /\ results[2].source \in {"api", "crawl"}

FirstWithLink(link) ==
  CHOOSE k \in 1..Len(feed) :
    feed[k].link = link /\ \A j \in 1..(k - 1) : feed[j].link # link

\* C3: the deduplicated list holds every distinct link of the feed exactly
\* once, the item kept for a link is its first occurrence, and the kept
\* items are in the order of the feed.
C3_Dedupe ==
  pc = "limit" =>
    /\ \A k \in 1..Len(feed) :
         Cardinality({j \in 1..Len(items) : items[j].link = feed[k].link}) = 1
    /\ \A j \in 1..Len(items) :
         /\ \E k \in 1..Len(feed) : feed[k].link = items[j].link
         /\ items[j] = feed[FirstWithLink(items[j].link)]
    /\ \A j1, j2 \in 1..Len(items) :
         j1 < j2 => FirstWithLink(items[j1].link) < FirstWithLink(items[j2].link)

\* two different entries with one link, and an entry with another link
C3_Witness ==
  /\ pc = "limit"
  /\ Len(items) = 2
  /\ \E a, b \in 1..Len(feed) :
       a < b /\ feed[a].link = feed[b].link /\ feed[a] # feed[b] /\ items[1] = feed[a]

\* C4: for an item without DOI and PII neither channel is called and no
\* extraction runs; it is skipped, and the run goes on with the next item.
C4_SkipUnresolvable ==
  /\ \A c \in calls : HasIdentifier(items[c[1]])
  /\ \A k \in 1..Len(results) :
       ~HasIdentifier(items[k]) => results[k].source = "skip"
  /\ (pc \in {"fetch", "crawl", "fetched", "extracted"}) => HasIdentifier(items[i])
  /\ Len(results) = i - 1
  /\ pc = "done" => Len(results) = Len(items)

\* an item without identifier was skipped and the item after it was fetched
C4_Witness ==
  /\ pc = "done"
  /\ Len(items) = 2
  /\ ~HasIdentifier(items[1])
  /\ results[1].source = "skip"
  /\ <<2, "crawl">> \in calls
  /\ results[2].source \in {"api", "crawl"}

HasXmlAnyCase(ct) ==
  \E k \in 1..(Len(ct) - 2) :
    ct[k] \in {"x", "X"} /\ ct[k + 1] \in {"m", "M"} /\ ct[k + 2] \in {"l", "L"}

\* C9: extract_content runs the structured extractor exactly when the
\* content type contains "xml" in any case or the document came from the
\* API, and the HTML extractor otherwise; the result is tagged api in the
\* first case and crawl in the second, so a crawled document is tagged crawl
\* only if its content type does not contain "xml".
C9_Dispatch ==
  pc = "extracted" =>
    LET f == fetched[1]
        ex == extracted[1]
        structured == HasXmlAnyCase(f.content_type) \/ f.source = "api"
    IN /\ structured => (ex.via[1] = "lxml" /\ ex.source = "api")
       /\ ~structured => (ex.via = <<"html">> /\ ex.source = "crawl")
       /\ (f.source = "crawl" /\ ex.source = "crawl") => ~HasXmlAnyCase(f.content_type)

\* a crawled document whose content type names xml in capitals is tagged api
C9_Witness ==
  /\ pc = "extracted"
  /\ fetched[1].source = "crawl"
  /\ fetched[1].content_type # Lower(fetched[1].content_type)
  /\ extracted[1].source = "api"

RanXml == pc \in {"extract_content", "extract_from_api_xml_lxml", "extract_from_api_xml"}

\* C5 as stated: on a document that both parsers accept, the lxml strategy
\* and the ElementTree strategy give the same abstract, full text and origin.
C5_AsStated ==
  (pc = "extract_from_api_xml_lxml" /\ raw_body.lxml # None /\ raw_body.et # None) =>
    Fields(extracted[1]) = Fields(extract_from_api_xml(raw_body))

\* the blank-line join of the kept abstract candidates
JoinedAbstract(ex) == TJoin(BlankLine, ex.abstract_parts)

\* C6 as stated: through extract_content, when no body candidate is kept and
\* the joined abstract is longer than 200 characters the full text is the
\* whole abstract and the abstract is cut to 500 characters and "..." if it
\* was longer than 500; otherwise neither field is changed.
C6_AsStated ==
  (pc = "extract_content" /\ WellFormed(raw_body)) =>
    LET ex == extracted[1]
        joined == JoinedAbstract(ex)
    IN IF ex.body_parts = <<>> /\ TLen(joined) > 200
       THEN /\ ex.full_text = joined
            /\ ex.abstract = IF TLen(joined) > 500
                             THEN TCat(TTake(joined, 500), Rep(".", 3))
                             ELSE joined
       ELSE /\ ex.abstract = joined
            /\ ex.full_text = TJoin(BlankLine, ex.body_parts)

ParsedTree == IF extracted[1].via = <<"lxml">> THEN raw_body.lxml[1] ELSE raw_body.et[1]

CandidateText(el) ==
  IF extracted[1].via = <<"lxml">> THEN lxml_text(ParsedTree, el) ELSE text_of(ParsedTree, el)

\* the strategy's more-than-20-characters filter
Qualifies(el) ==
  /\ TLen(CandidateText(el)) > 20
  /\ extracted[1].via = <<"lxml">> => TLen(normalize_space(ParsedTree, el)) > 20

NamedAny(names) ==
  SelectSeq(Indices(1, Len(ParsedTree)),
            LAMBDA k : ParsedTree[k].tag[Len(ParsedTree[k].tag)] \in names)

\* the texts of the first three elements of els that qualify and do not
\* repeat the text of a qualifying element before them
FirstThreeDistinct(els) ==
  LET firsts == SelectSeq(Indices(1, Len(els)),
                  LAMBDA p : /\ Qualifies(els[p])
                             /\ ~\E q \in 1..(p - 1) :
                                   /\ Qualifies(els[q])
                                   /\ CandidateText(els[q]) = CandidateText(els[p]))
  IN [m \in 1..Min(3, Len(firsts)) |-> CandidateText(els[firsts[m]])]

DistinctQualifying(els) ==
  {CandidateText(els[p]) : p \in {q \in 1..Len(els) : Qualifies(els[q])}}

Parsed == RanXml /\ extracted[1].via[Len(extracted[1].via)] \in {"lxml", "et"}
            /\ (extracted[1].via = <<"lxml">> \/ raw_body.et # None)

\* C8 as stated: the abstract is the blank-line join of the first three
\* distinct candidates longer than 20 characters, in document order, among
\* all elements named description or abstract.
C8_AsStated ==
  Parsed =>
    extracted[1].abstract
      = TJoin(BlankLine, FirstThreeDistinct(NamedAny({"description", "abstract"})))

\* C8: the abstract, as joined before the promotion rule, is the blank-line
\* join of at most 3 candidates, pairwise distinct, each longer than 20
\* characters: the first distinct candidates that pass the filter in the
\* order of the code, the description elements in document order and then
\* the abstract elements in document order.
C8_AbstractCandidates ==
  Parsed =>
    LET ex == extracted[1]
        kept == ex.abstract_parts
        joined == TJoin(BlankLine, kept)
    IN /\ Len(kept) <= 3
       /\ \A a, b \in 1..Len(kept) : a # b => kept[a] # kept[b]
       /\ \A a \in 1..Len(kept) : TLen(kept[a]) > 20
       /\ kept = FirstThreeDistinct(NamedAny({"description"}) \o NamedAny({"abstract"}))
       /\ IF ex.body_parts = <<>> /\ TLen(joined) > 200
          THEN ex.full_text = joined
          ELSE ex.abstract = joined

\* more than three distinct candidates qualified and three were kept
C8_Witness ==
  /\ Parsed
  /\ Len(extracted[1].abstract_parts) = 3
  /\ Cardinality(DistinctQualifying(NamedAny({"abstract"}))) >= 4
  /\ NamedAny({"description"}) = <<>>

\* the leaf paragraphs of a container that are long enough
Candidates(soup, c) ==
  SelectSeq(Indices(c + 1, SubEnd(soup, c)),
            LAMBDA k : /\ soup[k].tag \in {"p", "div"}
                       /\ ~\E j \in (k + 1)..SubEnd(soup, k) :
                             soup[j].depth = soup[k].depth + 1 /\ soup[j].tag \in {"p", "div"}
                       /\ TLen(get_text(soup, k)) > 40)

Containers(soup, k) ==
  SelectSeq(Indices(1, Len(soup)), LAMBDA c : Matches(soup[c], BodySelectors[k]))

Producing(soup, k) ==
  SelectSeq(Containers(soup, k), LAMBDA c : Candidates(soup, c) # <<>>)

RECURSIVE Concat(_)
Concat(seqs) == IF seqs = <<>> THEN <<>> ELSE Head(seqs) \o Concat(Tail(seqs))

FirstProducing(soup) ==
  LET ks == {k \in 1..Len(BodySelectors) : Producing(soup, k) # <<>>}
  IN IF ks = {} THEN 0 ELSE CHOOSE k \in ks : \A j \in ks : k <= j

WholeDocumentScan(soup) ==
  SelectSeq(Indices(1, Len(soup)),
            LAMBDA k : soup[k].tag = "p" /\ TLen(get_text(soup, k)) > 80)

\* C10 as stated: the body candidates are those of every container matched
\* by the first selector that gives any, and no later selector contributes;
\* the whole-document scan runs only when no selector gave a candidate.
C10_AsStated ==
  pc = "extract_from_html" =>
    LET soup == raw_body.soup
        ex == extracted[1]
        k == FirstProducing(soup)
    IN /\ ex.sel = k
       /\ ex.body_els =
            IF k = 0 THEN WholeDocumentScan(soup)
            ELSE Concat([m \in 1..Len(Containers(soup, k)) |->
                           Candidates(soup, Containers(soup, k)[m])])

\* C10: the selectors are tried in order and one whose containers give no
\* candidate is passed over; the body candidates are those of the first
\* container, matched by the first selector that gives any, that has a
\* candidate; later containers of that selector and later selectors add
\* nothing; the whole-document scan of the paragraphs longer than 80
\* characters runs only when no selector gave a candidate.
C10_FirstMatchWins ==
  pc = "extract_from_html" =>
    LET soup == raw_body.soup
        ex == extracted[1]
        k == FirstProducing(soup)
    IN /\ ex.sel = k
       /\ ex.body_els =
            IF k = 0 THEN WholeDocumentScan(soup)
            ELSE Candidates(soup, Producing(soup, k)[1])
       /\ ex.body_parts = [m \in 1..Len(ex.body_els) |-> get_text(soup, ex.body_els[m])]
       /\ ex.body_els # <<>> => ex.full_text = TJoin(BlankLine, ex.body_parts)

\* two containers of the selector that gave the body have candidates, and
\* only those of the first are kept
C10_Witness ==
  /\ pc = "extract_from_html"
  /\ extracted[1].sel > 0
  /\ Len(Producing(raw_body.soup, extracted[1].sel)) = 2
  /\ extracted[1].body_els
       = Candidates(raw_body.soup, Producing(raw_body.soup, extracted[1].sel)[1])
  /\ Candidates(raw_body.soup, Producing(raw_body.soup, extracted[1].sel)[2])
       # extracted[1].body_els

\* the p and div elements strictly inside element k, at any depth
NestedBlocks(soup, k) ==
  {j \in (k + 1)..SubEnd(soup, k) : soup[j].tag \in {"p", "div"}}

\* C11 as stated: every body candidate kept from a matched container is the
\* text of a p or div that has no p or div descendant at any depth, so no
\* kept element is an ancestor of another kept element.
C11_AsStated ==
  (pc = "extract_from_html" /\ extracted[1].sel > 0) =>
    LET soup == raw_body.soup
        kept == extracted[1].body_els
    IN /\ \A m \in 1..Len(kept) :
            /\ soup[kept[m]].tag \in {"p", "div"}
            /\ NestedBlocks(soup, kept[m]) = {}
       /\ \A a, b \in 1..Len(kept) :
            a # b => ~(kept[a] < kept[b] /\ kept[b] <= SubEnd(soup, kept[a]))

====
